---------------------------- MODULE Spec2Model ----------------------------
(* A model of supplychainlib: the DynamoDB table adapter (CRUD, paginated   *)
(* scan, numeric encoding), the distributor inventory increment, the S3     *)
(* adapter, the Lambda invoker and the SNS adapter.  The remote services    *)
(* are modelled as the stores the adapters talk to; every adapter method is *)
(* an action translated from its code.                                      *)
EXTENDS Integers, Sequences, FiniteSets, TLC

VARIABLES
    c_item, c_wire, c_out, c_pc,        \* the numeric round trip
    table,                              \* the DynamoDB table: key -> stored item
    sc_pc, kwargs, response, items,     \* scan_table's locals
    requests, pages,                    \* history: the scan requests sent, the pages received
    invoked,                            \* the Lambda service: invocations accepted
    st_req, st_calls,                   \* add_stock: each caller's request in flight, calls made
    st_issued, st_failed, st_overlap,   \* history of the add_stock calls
    s3, buckets, objects,               \* the S3Manager object, the account's buckets, the bucket's keys
    topic_arn,                          \* SNSManager.topic_arn
    topics, subs, published,            \* the SNS service: topics, subscriptions, the message last accepted
    pc, email, existing,                \* ensure_customer_subscription's position and locals, per caller
    last                                \* how the last adapter call ended

codecVars == <<c_item, c_wire, c_out, c_pc>>
scanVars == <<sc_pc, kwargs, response, items, requests, pages>>
tableVars == <<table, scanVars, invoked>>
stockVars == <<st_req, st_calls, st_issued, st_failed, st_overlap>>
s3Vars == <<s3, buckets, objects>>
snsVars == <<topic_arn, topics, subs, published, pc, email, existing>>
vars == <<codecVars, tableVars, stockVars, s3Vars, snsVars, last>>

\* What the actions of one adapter leave alone.
offCodec == <<tableVars, stockVars, s3Vars, snsVars, last>>
offTable == <<codecVars, stockVars, s3Vars, snsVars>>
offStock == <<codecVars, scanVars, invoked, s3Vars, snsVars, last>>
offS3 == <<codecVars, tableVars, stockVars, snsVars>>
offSNS == <<codecVars, tableVars, stockVars, s3Vars>>

-----------------------------------------------------------------------------
(* Bounds of the model.                                                     *)

MaxLen == 2       \* longest list inside an item
MaxDepth == 2     \* deepest nesting of lists and mappings inside an item
MaxPage == 2      \* most items the store evaluates for one page of a scan
MaxCalls == 2     \* add_stock calls per concurrent caller
MaxSubs == 2      \* subscriptions the SNS service holds

-----------------------------------------------------------------------------
(* Python values.  A number is coef * 10^exp: an int and a float in         *)
(* normal form (no trailing zero in coef; the float's coef and exp are the  *)
(* digits of its shortest repr), a Decimal as Python keeps it (the digits   *)
(* and the exponent it was built from, not normalised).                     *)

PyInt(c, e) == [t |-> "int", coef |-> c, exp |-> e]
PyFloat(c, e) == [t |-> "float", coef |-> c, exp |-> e]
PyDecimal(c, e) == [t |-> "Decimal", coef |-> c, exp |-> e]
Str(s) == [t |-> "str", str |-> s]
List(s) == [t |-> "list", elems |-> s]
Dict(m) == [t |-> "dict", items |-> m]
None == [t |-> "NoneType"]
Raised(e) == [t |-> "raise", exc |-> e]

Abs(n) == IF n < 0 THEN -n ELSE n

RECURSIVE Pow10(_)
Pow10(n) == IF n <= 0 THEN 1 ELSE 10 * Pow10(n - 1)

RECURSIVE NumDigits(_)
NumDigits(n) == IF Abs(n) < 10 THEN 1 ELSE 1 + NumDigits(Abs(n) \div 10)

\* coef * 10^exp without trailing zeros in coef (zero is <<0, 0>>).
RECURSIVE Norm(_, _)
Norm(c, e) ==
    IF c = 0 THEN <<0, 0>>
    ELSE IF c % 10 = 0 THEN Norm((Abs(c) \div 10) * (IF c < 0 THEN -1 ELSE 1), e + 1)
    ELSE <<c, e>>

\* The precision of Python's default decimal context, under which
\* `value % 1` is evaluated.
DecimalPrec == 28

\* str(float): repr writes fixed notation while the decimal point lies in
\* (-4, 16], with ".0" after an integral value, and scientific notation
\* otherwise; Decimal(text) keeps the digits and the exponent of the text.
DecimalOfStr(v) ==
    LET decpt == NumDigits(v.coef) + v.exp
    IN  IF v.coef = 0 THEN PyDecimal(0, -1)
        ELSE IF decpt > -4 /\ decpt <= 16 /\ v.exp >= 0
             THEN PyDecimal(v.coef * Pow10(v.exp + 1), -1)
        ELSE PyDecimal(v.coef, v.exp)

\* value % 1 signals InvalidOperation (DivisionImpossible) when the integer
\* quotient has more digits than the context's precision.
ModOneRaises(d) == d.coef # 0 /\ NumDigits(d.coef) + d.exp > DecimalPrec

\* value % 1 == 0
ModOneIsZero(d) == d.exp >= 0 \/ d.coef % Pow10(-d.exp) = 0

IntOfDecimal(d) == LET n == Norm(d.coef, d.exp) IN PyInt(n[1], n[2])
FloatOfDecimal(d) == LET n == Norm(d.coef, d.exp) IN PyFloat(n[1], n[2])

IsRaised(v) == v.t = "raise"

\* _prepare_for_dynamo.convert
RECURSIVE prepare_convert(_)
prepare_convert(value) ==
    IF value.t = "float" THEN DecimalOfStr(value)
    ELSE IF value.t = "dict"
         THEN Dict([k \in DOMAIN value.items |-> prepare_convert(value.items[k])])
    ELSE IF value.t = "list"
         THEN List([i \in DOMAIN value.elems |-> prepare_convert(value.elems[i])])
    ELSE value

\* _prepare_for_dynamo: item is a dict from attribute names to values;
\* item.items() of anything else raises.
_prepare_for_dynamo(item) ==
    IF item.t # "dict" THEN Raised("AttributeError")
    ELSE Dict([k \in DOMAIN item.items |-> prepare_convert(item.items[k])])

\* int(value) if value % 1 == 0 else float(value)
DecimalToNative(value) ==
    IF ModOneRaises(value) THEN Raised("InvalidOperation")
    ELSE IF ModOneIsZero(value) THEN IntOfDecimal(value)
    ELSE FloatOfDecimal(value)

\* _deserialize_item.convert; an exception raised for a nested value
\* propagates through the comprehensions around it.
RECURSIVE deserialize_convert(_)
deserialize_convert(value) ==
    IF value.t = "Decimal" THEN DecimalToNative(value)
    ELSE IF value.t = "dict"
         THEN LET m == [k \in DOMAIN value.items |-> deserialize_convert(value.items[k])]
              IN  IF \E k \in DOMAIN m : IsRaised(m[k])
                  THEN Raised("InvalidOperation") ELSE Dict(m)
    ELSE IF value.t = "list"
         THEN LET s == [i \in DOMAIN value.elems |-> deserialize_convert(value.elems[i])]
              IN  IF \E i \in DOMAIN s : IsRaised(s[i])
                  THEN Raised("InvalidOperation") ELSE List(s)
    ELSE value

\* _deserialize_item: None for an empty item, else the converted mapping
\* (or the exception convert raised).
_deserialize_item(item) ==
    IF item.t = "NoneType" \/ (item.t = "dict" /\ DOMAIN item.items = {}) THEN None
    ELSE LET m == [k \in DOMAIN item.items |-> deserialize_convert(item.items[k])]
         IN  IF \E k \in DOMAIN m : IsRaised(m[k])
             THEN Raised("InvalidOperation") ELSE Dict(m)

-----------------------------------------------------------------------------
(* The numeric round trip: an item is encoded for the store and decoded     *)
(* again.                                                                   *)

Leaves ==
    { PyInt(3, 0), PyFloat(4, 0), PyFloat(25, -1), PyFloat(-125, -2),
      PyFloat(1, 22), PyFloat(1, 28) }

SeqsUpTo(S, n) == UNION { [1..k -> S] : k \in 0..n }

RECURSIVE Values(_)
Values(d) ==
    IF d = 0 THEN Leaves
    ELSE LET V == Values(d - 1)
         IN  Leaves
             \cup { List(s) : s \in SeqsUpTo(V, MaxLen) }
             \cup { Dict([k \in {"a"} |-> v]) : v \in V }
             \cup { Dict([k \in {} |-> 0]) }

CodecItems == { Dict([k \in {"v"} |-> v]) : v \in Values(MaxDepth) }

\* The record of a finished adapter call: the method, its argument, how it
\* ended ("return" or the exception that reached the caller), the value
\* returned, the remote calls it made and the failure the service answered.
Ended(op, arg, outcome, value, remote, fault) ==
    [op |-> op, arg |-> arg, outcome |-> outcome, value |-> value,
     remote |-> remote, fault |-> fault]

NoCall == Ended("none", None, "return", None, <<>>, "none")

\* How a remote call can end: it answers, it fails with a botocore
\* ClientError, or it fails with any other exception (no connection, a
\* parameter the client library rejects).
Faults == {"none", "ClientError", "OtherError"}

EmptyMap == [k \in {} |-> None]

CodecIdle ==
    /\ c_item = None
    /\ c_wire = None
    /\ c_out = None
    /\ c_pc = "off"

\* No scan in progress and none just finished: its locals are gone.
ScanIdle ==
    /\ sc_pc = "idle"
    /\ kwargs = EmptyMap
    /\ response = EmptyMap
    /\ items = <<>>
    /\ requests = <<>>
    /\ pages = <<>>

\* A finished scan's locals are gone once the thread makes another call.
ScanReset ==
    /\ sc_pc' = "idle"
    /\ kwargs' = EmptyMap
    /\ response' = EmptyMap
    /\ items' = <<>>
    /\ requests' = <<>>
    /\ pages' = <<>>

TableIdle ==
    /\ table = EmptyMap
    /\ ScanIdle
    /\ invoked = {}

\* The threads that share an adapter.
Callers == {"A", "B"}

StockIdle ==
    /\ st_req = [c \in Callers |-> EmptyMap]
    /\ st_calls = [c \in Callers |-> 0]
    /\ st_issued = <<>>
    /\ st_failed = FALSE
    /\ st_overlap = FALSE

S3Idle ==
    /\ s3 = None
    /\ buckets = {}
    /\ objects = {}

SNSIdle ==
    /\ topic_arn = None
    /\ topics = {}
    /\ subs = <<>>
    /\ published = None
    /\ pc = [c \in Callers |-> "idle"]
    /\ email = [c \in Callers |-> None]
    /\ existing = [c \in Callers |-> <<>>]

InitCodec ==
    /\ c_item \in CodecItems
    /\ c_wire = None
    /\ c_out = None
    /\ c_pc = "item"
    /\ TableIdle
    /\ StockIdle
    /\ S3Idle
    /\ SNSIdle
    /\ last = NoCall

\* put_item's encoding step (line 29).
Prepare ==
    /\ c_pc = "item"
    /\ c_wire' = _prepare_for_dynamo(c_item)
    /\ c_pc' = "encoded"
    /\ UNCHANGED <<c_item, c_out, offCodec>>

\* scan_table's decoding step (line 68) on the encoded item.
Deserialize ==
    /\ c_pc = "encoded"
    /\ c_out' = _deserialize_item(c_wire)
    /\ c_pc' = "decoded"
    /\ UNCHANGED <<c_item, c_wire, offCodec>>

NextCodec == Prepare \/ Deserialize

SpecCodec == InitCodec /\ [][NextCodec]_vars

\* What the round trip must return for an original value: an int as it
\* was, a float with zero fractional part as the int of the same value, any
\* other float as the same float, a list or a mapping of the same shape.
RECURSIVE RoundTrips(_, _)
RoundTrips(orig, out) ==
    IF orig.t = "float"
    THEN IF orig.exp >= 0 \/ orig.coef = 0
         THEN out = PyInt(orig.coef, orig.exp)
         ELSE out = orig
    ELSE IF orig.t = "dict"
         THEN /\ out.t = "dict"
              /\ DOMAIN out.items = DOMAIN orig.items
              /\ \A k \in DOMAIN orig.items : RoundTrips(orig.items[k], out.items[k])
    ELSE IF orig.t = "list"
         THEN /\ out.t = "list"
              /\ DOMAIN out.elems = DOMAIN orig.elems
              /\ \A i \in DOMAIN orig.elems : RoundTrips(orig.elems[i], out.elems[i])
    ELSE out = orig

\* C8: for every item whose values are numbers, nested at any depth in
\* mappings and lists, decoding the encoded item reproduces each numeric
\* value exactly: an integral float comes back as an int, any other float
\* as a float, and no Decimal remains.
C8_RoundTripExact == c_pc = "decoded" => RoundTrips(c_item, c_out)

\* The same over the values whose integer part has at most DecimalPrec
\* digits.
RECURSIVE Moderate(_)
Moderate(v) ==
    IF v.t \in {"int", "float", "Decimal"}
    THEN v.coef = 0 \/ NumDigits(v.coef) + v.exp <= DecimalPrec
    ELSE IF v.t = "dict" THEN \A k \in DOMAIN v.items : Moderate(v.items[k])
    ELSE IF v.t = "list" THEN \A i \in DOMAIN v.elems : Moderate(v.elems[i])
    ELSE TRUE

C8_ModerateRoundTrip ==
    (c_pc = "decoded" /\ Moderate(c_item)) => RoundTrips(c_item, c_out)

-----------------------------------------------------------------------------
(* The DynamoDB table behind a DynamoDBManager.  A stored item is a dict    *)
(* with the key attribute "id"; a scan walks the keys in KeyOrder.          *)

KeyOrder == <<"k1", "k2", "k3">>
Keys == { KeyOrder[i] : i \in DOMAIN KeyOrder }
Pos(k) == CHOOSE i \in DOMAIN KeyOrder : KeyOrder[i] = k

Min(a, b) == IF a < b THEN a ELSE b

\* The items an application puts: key, status and a float quantity.
PutInputs ==
    { Dict([a \in {"id", "status", "quantity"} |->
              IF a = "id" THEN Str(k) ELSE IF a = "status" THEN Str(st) ELSE q]) :
        k \in Keys, st \in {"active", "inactive"},
        q \in {PyFloat(25, -1), PyFloat(1, 28)} }
    \cup { None, Dict([a \in {"status"} |-> Str("active")]) }

\* The table's answer to get_item(Key=key): a response holding "Item" when
\* the key is stored.
TableGet(tbl, k) ==
    IF k \in DOMAIN tbl THEN [Item |-> tbl[k]] ELSE EmptyMap

\* response.get("Item")
ResponseGet(resp, name, default) ==
    IF name \in DOMAIN resp THEN resp[name] ELSE default

\* The table's answer to put_item(Item=item): an item without the key
\* attribute is rejected (a ClientError), any other replaces what the key held.
TablePutAccepts(item) == "id" \in DOMAIN item.items
TablePut(tbl, item) ==
    LET k == item.items["id"].str
    IN  [x \in DOMAIN tbl \cup {k} |-> IF x = k THEN item ELSE tbl[x]]

TableDelete(tbl, k) == [x \in DOMAIN tbl \ {k} |-> tbl[x]]

\* a + b on the store's numbers, aligned to the smaller exponent.
NumAdd(a, b) ==
    LET m == Min(a.exp, b.exp)
    IN  PyDecimal(a.coef * Pow10(a.exp - m) + b.coef * Pow10(b.exp - m), m)

IncrementExpr == "SET quantity = if_not_exists(quantity, :z) + :q"
SetStatusExpr == "SET #s = :s"

\* The expression with the increment lost: SET quantity = :z + :q.
EvalOverwrite(item, values) == NumAdd(values[":z"], values[":q"])

\* SET quantity = if_not_exists(quantity, :z) + :q, evaluated by the store
\* on the stored item (absent: the item holding only its key).
EvalIncrement(item, values) ==
    LET old == IF "quantity" \in DOMAIN item.items
               THEN item.items["quantity"] ELSE values[":z"]
    IN  NumAdd(old, values[":q"])

\* The attribute and the value an update expression assigns.
UpdateTarget(item, params) ==
    IF params["UpdateExpression"] = IncrementExpr
    THEN <<"quantity", EvalIncrement(item, params["ExpressionAttributeValues"])>>
    ELSE <<params["ExpressionAttributeNames"]["#s"],
           params["ExpressionAttributeValues"][":s"]>>

\* An expression that uses a name placeholder needs ExpressionAttributeNames.
TableUpdateAccepts(params) ==
    params["UpdateExpression"] = SetStatusExpr
        => "ExpressionAttributeNames" \in DOMAIN params

\* The table's update_item: one atomic read-modify-write of the item.
TableUpdate(tbl, params) ==
    LET k == params["Key"]
        old == IF k \in DOMAIN tbl THEN tbl[k]
               ELSE Dict([a \in {"id"} |-> Str(k)])
        tv == UpdateTarget(old, params)
        new == Dict([a \in DOMAIN old.items \cup {tv[1]} |->
                        IF a = tv[1] THEN tv[2] ELSE old.items[a]])
    IN  [x \in DOMAIN tbl \cup {k} |-> IF x = k THEN new ELSE tbl[x]]

\* The keys stored, in scan order, after the exclusive start key.
RECURSIVE SelectKeys(_, _, _)
SelectKeys(tbl, i, from) ==
    IF i > Len(KeyOrder) THEN <<>>
    ELSE (IF KeyOrder[i] \in DOMAIN tbl /\ i > from THEN <<KeyOrder[i]>> ELSE <<>>)
         \o SelectKeys(tbl, i + 1, from)

Passes(item, req) ==
    "FilterExpression" \in DOMAIN req
        => ("status" \in DOMAIN item.items /\ item.items["status"] = Str("active"))

RECURSIVE FilterItems(_, _, _)
FilterItems(tbl, ks, req) ==
    IF ks = <<>> THEN <<>>
    ELSE (IF Passes(tbl[Head(ks)], req) THEN <<tbl[Head(ks)]>> ELSE <<>>)
         \o FilterItems(tbl, Tail(ks), req)

\* The table's answer to scan(**req) when it evaluates n items for the page:
\* the evaluated items that pass the request's filter, and LastEvaluatedKey
\* while items remain after them.
TableScan(tbl, req, n) ==
    LET from == IF "ExclusiveStartKey" \in DOMAIN req
                THEN Pos(req["ExclusiveStartKey"]) ELSE 0
        rest == SelectKeys(tbl, 1, from)
        m == Min(n, Len(rest))
        page == FilterItems(tbl, SubSeq(rest, 1, m), req)
    IN  IF m < Len(rest)
        THEN [Items |-> page, LastEvaluatedKey |-> rest[m]]
        ELSE [Items |-> page]

ScanKwargs == { EmptyMap, [FilterExpression |-> "status = active"] }

-----------------------------------------------------------------------------
(* DynamoDBManager.                                                         *)

\* get_item
get_item(k) ==
    /\ sc_pc = "idle"
    /\ \E fault \in Faults :
         last' = Ended("get_item", Str(k), "return",
                       IF fault = "none"
                       THEN ResponseGet(TableGet(table, k), "Item", None)
                       ELSE None,
                       <<"get_item">>, fault)
    /\ ScanReset
    /\ UNCHANGED <<offTable, table, invoked>>

\* put_item: what the call leaves in the table and how it ends, for the
\* failure the service answers.
put_item(item) ==
    /\ sc_pc = "idle"
    /\ LET prepared == _prepare_for_dynamo(item)
       IN  IF IsRaised(prepared)
           THEN /\ last' = Ended("put_item", item, "return", None, <<>>, "none")
                /\ UNCHANGED table
           ELSE \E fault \in Faults :
                  LET f == IF fault = "none" /\ ~TablePutAccepts(prepared)
                           THEN "ClientError" ELSE fault
                  IN  /\ table' = IF f = "none" THEN TablePut(table, prepared) ELSE table
                      /\ last' = Ended("put_item", item, "return", None, <<"put_item">>, f)
    /\ ScanReset
    /\ UNCHANGED <<offTable, invoked>>

\* update_item's request parameters (lines 37-43).
update_item_params(key, update_expr, values, names) ==
    LET params == [p \in {"Key", "UpdateExpression", "ExpressionAttributeValues"} |->
                     IF p = "Key" THEN key
                     ELSE IF p = "UpdateExpression" THEN update_expr ELSE values]
    IN  IF names # EmptyMap
        THEN [p \in DOMAIN params \cup {"ExpressionAttributeNames"} |->
                IF p = "ExpressionAttributeNames" THEN names ELSE params[p]]
        ELSE params

\* update_item
update_item(key, update_expr, values, names) ==
    /\ sc_pc = "idle"
    /\ LET params == update_item_params(key, update_expr, values, names)
       IN  \E fault \in Faults :
             LET f == IF fault = "none" /\ ~TableUpdateAccepts(params)
                      THEN "ClientError" ELSE fault
             IN  /\ table' = IF f = "none" THEN TableUpdate(table, params) ELSE table
                 /\ last' = Ended("update_item", Str(key), "return", None,
                                  <<"update_item">>, f)
    /\ ScanReset
    /\ UNCHANGED <<offTable, invoked>>

\* delete_item
delete_item(k) ==
    /\ sc_pc = "idle"
    /\ \E fault \in Faults :
         /\ table' = IF fault = "none" THEN TableDelete(table, k) ELSE table
         /\ last' = Ended("delete_item", Str(k), "return", None, <<"delete_item">>, fault)
    /\ ScanReset
    /\ UNCHANGED <<offTable, invoked>>

\* items.extend(response.get("Items", []))
Extend(acc, resp) == acc \o ResponseGet(resp, "Items", <<>>)

\* scan_table, lines 59-62: the first request carries the caller's kwargs.
ScanFirst(kw) ==
    /\ sc_pc = "idle"
    /\ kwargs' = kw
    /\ requests' = <<kw>>
    /\ \E fault \in Faults :
         IF fault = "none"
         THEN \E n \in 1..MaxPage :
                /\ response' = TableScan(table, kw, n)
                /\ items' = Extend(<<>>, response')
                /\ pages' = <<response'>>
                /\ sc_pc' = "paging"
                /\ last' = NoCall
         ELSE /\ last' = Ended("scan_table", None, "return", List(<<>>), <<"scan">>, fault)
              /\ UNCHANGED <<response, items, pages, sc_pc>>
    /\ UNCHANGED <<offTable, table, invoked>>

\* The request of line 65.
ContinuationRequest(kw, resp) == [ExclusiveStartKey |-> resp["LastEvaluatedKey"]]

\* scan_table, lines 64-66: one turn of the loop.
ScanContinue ==
    /\ sc_pc = "paging"
    /\ "LastEvaluatedKey" \in DOMAIN response
    /\ LET req == ContinuationRequest(kwargs, response)
       IN  /\ requests' = Append(requests, req)
           /\ \E fault \in Faults :
                IF fault = "none"
                THEN \E n \in 1..MaxPage :
                       /\ response' = TableScan(table, req, n)
                       /\ items' = Extend(items, response')
                       /\ pages' = Append(pages, response')
                       /\ UNCHANGED <<sc_pc, last>>
                ELSE /\ last' = Ended("scan_table", None, "return", List(<<>>),
                                      [i \in 1..Len(requests') |-> "scan"], fault)
                     /\ sc_pc' = "idle"
                     /\ UNCHANGED <<response, items, pages>>
    /\ UNCHANGED <<offTable, table, kwargs, invoked>>

\* scan_table, line 68 (and 69-71 when decoding an item raises).
ScanReturn ==
    /\ sc_pc = "paging"
    /\ "LastEvaluatedKey" \notin DOMAIN response
    /\ LET out == [i \in DOMAIN items |-> _deserialize_item(items[i])]
       IN  last' = Ended("scan_table", None, "return",
                         IF \E i \in DOMAIN out : IsRaised(out[i])
                         THEN List(<<>>) ELSE List(out),
                         [i \in 1..Len(requests) |-> "scan"], "none")
    /\ sc_pc' = "idle"
    /\ UNCHANGED <<offTable, table, kwargs, response, items, requests, pages, invoked>>

-----------------------------------------------------------------------------
(* LambdaInvoker.                                                           *)

\* json.dumps accepts None, numbers, strings, lists and dicts of them, and
\* raises TypeError for anything else (a Decimal).
RECURSIVE JsonSerializable(_)
JsonSerializable(v) ==
    IF v.t \in {"NoneType", "int", "float", "str"} THEN TRUE
    ELSE IF v.t = "dict" THEN \A k \in DOMAIN v.items : JsonSerializable(v.items[k])
    ELSE IF v.t = "list" THEN \A i \in DOMAIN v.elems : JsonSerializable(v.elems[i])
    ELSE FALSE

Payloads ==
    { Dict([a \in {"quantity"} |-> PyInt(3, 0)]),
      Dict([a \in {"quantity"} |-> PyDecimal(25, -1)]) }

\* How invoke_function ends when the remote call fails with `fault`: the
\* handler of line 26 catches ClientError alone.
InvokeFailed(fault) == IF fault = "ClientError" THEN "return" ELSE fault

\* invoke_function
invoke_function(function_name, payload, invocation_type) ==
    /\ sc_pc = "idle"
    /\ IF ~JsonSerializable(payload)
       THEN /\ last' = Ended("invoke_function", payload, "TypeError", None, <<>>, "none")
            /\ UNCHANGED invoked
       ELSE \E fault \in Faults :
              IF fault = "none"
              THEN /\ invoked' = invoked \cup {<<function_name, invocation_type>>}
                   /\ last' = Ended("invoke_function", payload, "return",
                                    Dict([a \in {"StatusCode"} |->
                                            IF invocation_type = "Event"
                                            THEN PyInt(202, 0) ELSE PyInt(2, 2)]),
                                    <<"invoke">>, fault)
              ELSE /\ last' = Ended("invoke_function", payload, InvokeFailed(fault), None,
                                    <<"invoke">>, fault)
                   /\ UNCHANGED invoked
    /\ ScanReset
    /\ UNCHANGED <<offTable, table>>

-----------------------------------------------------------------------------
(* One application thread driving a table adapter and a Lambda invoker.     *)

InitTable ==
    /\ CodecIdle
    /\ TableIdle
    /\ StockIdle
    /\ S3Idle
    /\ SNSIdle
    /\ last = NoCall

NextTable ==
    \/ \E k \in Keys : get_item(k)
    \/ \E item \in PutInputs : put_item(item)
    \/ \E k \in Keys, names \in {EmptyMap, [n \in {"#s"} |-> "status"]} :
         update_item(k, SetStatusExpr, [v \in {":s"} |-> Str("inactive")], names)
    \/ \E k \in Keys : delete_item(k)
    \/ \E kw \in ScanKwargs : ScanFirst(kw)
    \/ ScanContinue
    \/ ScanReturn
    \/ \E p \in Payloads, ty \in {"Event", "RequestResponse"} :
         invoke_function("reorder", p, ty)

SpecTable == InitTable /\ [][NextTable]_vars

\* A scan has returned after the store answered every page request.
ScanDone == last.op = "scan_table" /\ sc_pc = "idle" /\ last.fault = "none"

RECURSIVE PageItems(_)
PageItems(pgs) ==
    IF pgs = <<>> THEN <<>> ELSE ResponseGet(Head(pgs), "Items", <<>>) \o PageItems(Tail(pgs))

ItemIds(seq) == [i \in DOMAIN seq |-> seq[i].items["id"].str]

\* The loop went from the first page to the first page without a token.
StoppedAtLastPage ==
    /\ pages # <<>>
    /\ "LastEvaluatedKey" \notin DOMAIN pages[Len(pages)]
    /\ \A i \in 1..(Len(pages) - 1) : "LastEvaluatedKey" \in DOMAIN pages[i]
    /\ Len(requests) = Len(pages)

\* C1: when the store answers every page of a scan, scan_table returns
\* exactly the items of all pages, first page to the first page without a
\* token: each item of each page once, in order, none dropped or duplicated.
C1_ScanReturnsAllPages ==
    ScanDone =>
        /\ StoppedAtLastPage
        /\ last.value.t = "list"
        /\ ItemIds(last.value.elems) = ItemIds(PageItems(pages))

\* The pagination itself: the same, for the scans whose items all decode.
ScanPagesDecodable ==
    \A i \in DOMAIN items : ~IsRaised(_deserialize_item(items[i]))

ScanReturnsDecodablePages ==
    (ScanDone /\ ScanPagesDecodable) =>
        /\ StoppedAtLastPage
        /\ last.value = List([i \in DOMAIN items |-> _deserialize_item(items[i])])
        /\ items = PageItems(pages)

\* C9: every page request of a filtered scan, the first and each
\* continuation, carries the caller's filter arguments, so every returned
\* item satisfies the filter.
C9_FilterOnEveryPage ==
    ScanDone =>
        /\ \A i \in DOMAIN requests : \A p \in DOMAIN kwargs :
              p \in DOMAIN requests[i] /\ requests[i][p] = kwargs[p]
        /\ \A i \in DOMAIN last.value.elems : Passes(last.value.elems[i], kwargs)

SwallowingOps ==
    {"get_item", "put_item", "update_item", "delete_item", "scan_table", "invoke_function"}

\* C6: every Table Adapter operation and invoke_function swallows every
\* error: whatever fails, the call or the preparation of its arguments, the
\* operation returns None (an empty list for scan), never raises, and makes
\* no second attempt.
C6_SwallowsEveryError ==
    last.op \in SwallowingOps =>
        /\ last.outcome = "return"
        /\ last.fault # "none" =>
              last.value = (IF last.op = "scan_table" THEN List(<<>>) ELSE None)
        /\ last.op # "scan_table" => Len(last.remote) <= 1

\* The Table Adapter alone does swallow every error.
TableSwallowsEveryError ==
    last.op \in (SwallowingOps \ {"invoke_function"}) =>
        /\ last.outcome = "return"
        /\ last.fault # "none" =>
              last.value = (IF last.op = "scan_table" THEN List(<<>>) ELSE None)
        /\ last.op # "scan_table" => Len(last.remote) <= 1

-----------------------------------------------------------------------------
(* DistributorInventoryManager.add_stock, called by concurrent threads.     *)
(* The adapter takes no lock: a call builds its request and hands it to the *)
(* table, which applies each update_item atomically, in the order the       *)
(* requests reach it.                                                       *)

Distributors == {"d1"}
Products == {"p1", "p2"}
Deltas == {-1, 2}

\* f"{distributor_id}#{product_id}"
CompositeKey(distributor_id, product_id) == distributor_id \o "#" \o product_id

\* The values of add_stock's update expression (line 163).
add_stock_values(quantity) ==
    [v \in {":q", ":z"} |-> IF v = ":q" THEN PyInt(quantity, 0) ELSE PyInt(0, 0)]

\* add_stock up to the remote call: the request is on its way to the table.
AddStockSend(c, distributor_id, product_id, quantity) ==
    /\ st_req[c] = EmptyMap
    /\ st_calls[c] < MaxCalls
    /\ LET key == CompositeKey(distributor_id, product_id)
           params == update_item_params(key, IncrementExpr,
                                        add_stock_values(quantity), EmptyMap)
       IN  /\ st_req' = [st_req EXCEPT ![c] = params]
           /\ st_issued' = Append(st_issued, [key |-> key, q |-> quantity])
           /\ st_overlap' = (st_overlap \/ \E o \in Callers \ {c} :
                                st_req[o] # EmptyMap /\ st_req[o]["Key"] = key)
    /\ st_calls' = [st_calls EXCEPT ![c] = @ + 1]
    /\ UNCHANGED <<table, st_failed, offStock>>

\* The table applies (or fails) the request; update_item swallows a failure
\* and add_stock returns None.
AddStockApply(c) ==
    /\ st_req[c] # EmptyMap
    /\ \E fault \in Faults :
         /\ table' = IF fault = "none" THEN TableUpdate(table, st_req[c]) ELSE table
         /\ st_failed' = (st_failed \/ fault # "none")
    /\ st_req' = [st_req EXCEPT ![c] = EmptyMap]
    /\ UNCHANGED <<st_calls, st_issued, st_overlap, offStock>>

InitStock ==
    /\ CodecIdle
    /\ TableIdle
    /\ StockIdle
    /\ S3Idle
    /\ SNSIdle
    /\ last = NoCall

NextStock ==
    \/ \E c \in Callers, d \in Distributors, p \in Products, q \in Deltas :
         AddStockSend(c, d, p, q)
    \/ \E c \in Callers : AddStockApply(c)

SpecStock == InitStock /\ [][NextStock]_vars

RECURSIVE SumFor(_, _)
SumFor(key, log) ==
    IF log = <<>> THEN 0
    ELSE (IF Head(log).key = key THEN Head(log).q ELSE 0) + SumFor(key, Tail(log))

IssuedKeys == { st_issued[i].key : i \in DOMAIN st_issued }

AllApplied == \A c \in Callers : st_req[c] = EmptyMap

\* C2: starting from keys with no stored quantity, once every add_stock call
\* has been applied by the table and none failed, the quantity stored under
\* each composite key is the sum of all deltas issued for it, whatever the
\* order in which concurrent callers' updates reached the table.
C2_StockIsSumOfDeltas ==
    (AllApplied /\ ~st_failed) =>
        /\ DOMAIN table = IssuedKeys
        /\ \A k \in IssuedKeys :
              /\ "quantity" \in DOMAIN table[k].items
              /\ table[k].items["quantity"].exp = 0
              /\ table[k].items["quantity"].coef = SumFor(k, st_issued)

\* Two callers' requests for one key were in flight together, and a key has
\* received several deltas, all applied.
C2_ConcurrentAddsApplied ==
    /\ AllApplied /\ ~st_failed /\ st_overlap
    /\ \E k \in IssuedKeys :
         /\ Cardinality({i \in DOMAIN st_issued : st_issued[i].key = k}) >= 3
         /\ table[k].items["quantity"].coef = SumFor(k, st_issued)

-----------------------------------------------------------------------------
(* S3Manager.  A string whose characters matter (a bucket name is           *)
(* stripped) is the sequence of its characters; an object key and a file    *)
(* path are the sequences of their "/"-separated parts.                     *)

PyStr(chars) == [t |-> "str", chars |-> chars]
Whitespace == {" ", "\t"}

RECURSIVE lstrip(_)
lstrip(cs) == IF cs # <<>> /\ Head(cs) \in Whitespace THEN lstrip(Tail(cs)) ELSE cs

RECURSIVE rstrip(_)
rstrip(cs) ==
    IF cs # <<>> /\ cs[Len(cs)] \in Whitespace THEN rstrip(SubSeq(cs, 1, Len(cs) - 1)) ELSE cs

\* str.strip()
strip(cs) == rstrip(lstrip(cs))

\* The test of line 15 with the whitespace check left out.
IsStringOnly(bucket_name) == bucket_name.t = "str"

\* not (not isinstance(bucket_name, str) or not bucket_name.strip())
ValidBucketName(bucket_name) ==
    bucket_name.t = "str" /\ strip(bucket_name.chars) # <<>>

BucketInputs ==
    { None, PyInt(42, 0), PyStr(<<>>), PyStr(<<" ">>), PyStr(<<" ", "\t">>),
      PyStr(<<"b">>), PyStr(<<" ", "b", " ">>) }

DefaultRegion == "us-east-1"
RegionInputs == { Str("us-east-1"), Str("eu-west-1"), None }

\* region_name or "us-east-1"
RegionOr(region_name) ==
    IF region_name.t = "NoneType" \/ region_name.str = "" THEN DefaultRegion
    ELSE region_name.str

\* create_bucket as _ensure_bucket_exists calls it: without a configuration
\* in the default region, with a LocationConstraint elsewhere.
CreateBucketRequest(name, region) ==
    IF region = DefaultRegion THEN [Bucket |-> name]
    ELSE [Bucket |-> name, CreateBucketConfiguration |-> [LocationConstraint |-> region]]

\* The service's bucket for a create_bucket request.
BucketOf(req) ==
    [Name |-> req.Bucket,
     Location |-> IF "CreateBucketConfiguration" \in DOMAIN req
                  THEN req.CreateBucketConfiguration.LocationConstraint
                  ELSE DefaultRegion]

\* How a method that re-raises ends when its remote call fails: the handler
\* prints and raises again, any other exception passes through.
Reraised(fault) == fault

\* __init__ with _ensure_bucket_exists: a rejected name raises before the
\* client exists; otherwise the client is created, the buckets are listed
\* and the bucket is created when its name is not among them.
S3Manager_init(bucket_name, region_name) ==
    /\ \A c \in Callers : pc[c] = "idle"
    /\ IF ~ValidBucketName(bucket_name)
       THEN /\ last' = Ended("S3Manager", bucket_name, "ValueError", None, <<>>, "none")
            /\ UNCHANGED <<s3, buckets>>
       ELSE LET name == strip(bucket_name.chars)
                region == RegionOr(region_name)
                obj == [t |-> "S3Manager", bucket_name |-> PyStr(name),
                        region_name |-> region]
            IN  \E f1 \in Faults :
                  IF f1 # "none"
                  THEN /\ last' = Ended("S3Manager", bucket_name, Reraised(f1), None,
                                        <<"boto3.client", "list_buckets">>, f1)
                       /\ UNCHANGED <<s3, buckets>>
                  ELSE IF name \in { b.Name : b \in buckets }
                  THEN /\ s3' = obj
                       /\ last' = Ended("S3Manager", bucket_name, "return", obj,
                                        <<"boto3.client", "list_buckets">>, "none")
                       /\ UNCHANGED buckets
                  ELSE \E f2 \in Faults :
                         IF f2 # "none"
                         THEN /\ last' = Ended("S3Manager", bucket_name, Reraised(f2), None,
                                         <<"boto3.client", "list_buckets", "create_bucket">>, f2)
                              /\ UNCHANGED <<s3, buckets>>
                         ELSE /\ buckets' = buckets \cup
                                    {BucketOf(CreateBucketRequest(name, region))}
                              /\ s3' = obj
                              /\ last' = Ended("S3Manager", bucket_name, "return", obj,
                                         <<"boto3.client", "list_buckets", "create_bucket">>,
                                         "none")
    /\ UNCHANGED <<objects, offS3>>

\* The keys the model's bucket can hold, in the order the service lists them.
ObjectOrder == << <<"a.csv">>, <<"reports", "a.csv">> >>
ObjectKeys == { ObjectOrder[i] : i \in DOMAIN ObjectOrder }
FilePaths == { <<"tmp", "a.csv">>, <<"a.csv">> }

\* os.path.basename
basename(path) == IF path = <<>> THEN <<>> ELSE <<path[Len(path)]>>

\* object_name or os.path.basename(file_path)
ObjectNameOr(object_name, file_path) ==
    IF object_name.t = "NoneType" \/ object_name.key = <<>> THEN basename(file_path)
    ELSE object_name.key

Key(k) == [t |-> "str", key |-> k]

S3Ready == s3 # None /\ \A c \in Callers : pc[c] = "idle"

\* upload_file
upload_file(file_path, object_name) ==
    /\ S3Ready
    /\ LET name == ObjectNameOr(object_name, file_path)
       IN  \E fault \in Faults :
             IF fault = "none"
             THEN /\ objects' = objects \cup {name}
                  /\ last' = Ended("upload_file", Key(name), "return", None,
                                   <<"upload_file">>, fault)
             ELSE /\ last' = Ended("upload_file", Key(name), Reraised(fault), None,
                                   <<"upload_file">>, fault)
                  /\ UNCHANGED objects
    /\ UNCHANGED <<s3, buckets, offS3>>

\* upload_fileobj
upload_fileobj(object_name) ==
    /\ S3Ready
    /\ \E fault \in Faults :
         IF fault = "none"
         THEN /\ objects' = objects \cup {object_name}
              /\ last' = Ended("upload_fileobj", Key(object_name), "return", None,
                               <<"upload_fileobj">>, fault)
         ELSE /\ last' = Ended("upload_fileobj", Key(object_name), Reraised(fault), None,
                               <<"upload_fileobj">>, fault)
              /\ UNCHANGED objects
    /\ UNCHANGED <<s3, buckets, offS3>>

\* download_file: the service answers a ClientError for a key it does not hold.
download_file(object_name) ==
    /\ S3Ready
    /\ \E fault \in Faults :
         LET f == IF fault = "none" /\ object_name \notin objects
                  THEN "ClientError" ELSE fault
         IN  last' = Ended("download_file", Key(object_name),
                           IF f = "none" THEN "return" ELSE Reraised(f), None,
                           <<"download_file">>, f)
    /\ UNCHANGED <<s3Vars, offS3>>

IsPrefix(p, k) == Len(p) <= Len(k) /\ SubSeq(k, 1, Len(p)) = p

RECURSIVE ListKeys(_, _, _)
ListKeys(held, prefix, i) ==
    IF i > Len(ObjectOrder) THEN <<>>
    ELSE (IF ObjectOrder[i] \in held /\ IsPrefix(prefix, ObjectOrder[i])
          THEN <<Key(ObjectOrder[i])>> ELSE <<>>)
         \o ListKeys(held, prefix, i + 1)

\* A handler raising the exception again, like the other methods' handlers.
list_objects_reraise(fault) == fault

\* What list_objects's handler (lines 88-90) makes of an exception.
list_objects_except(fault) == "return"

\* list_objects
list_objects(prefix) ==
    /\ S3Ready
    /\ IF ~ValidBucketName(s3.bucket_name)
       THEN last' = Ended("list_objects", Key(prefix), list_objects_except("ValueError"),
                          List(<<>>), <<>>, "none")
       ELSE \E fault \in Faults :
              IF fault = "none"
              THEN last' = Ended("list_objects", Key(prefix), "return",
                                 List(ListKeys(objects, prefix, 1)),
                                 <<"list_objects_v2">>, fault)
              ELSE last' = Ended("list_objects", Key(prefix), list_objects_except(fault),
                                 List(<<>>), <<"list_objects_v2">>, fault)
    /\ UNCHANGED <<s3Vars, offS3>>

\* delete_file
delete_file(file_key) ==
    /\ S3Ready
    /\ \E fault \in Faults :
         IF fault = "none"
         THEN /\ objects' = objects \ {file_key}
              /\ last' = Ended("delete_file", Key(file_key), "return", None,
                               <<"delete_object">>, fault)
         ELSE /\ last' = Ended("delete_file", Key(file_key), Reraised(fault), None,
                               <<"delete_object">>, fault)
              /\ UNCHANGED objects
    /\ UNCHANGED <<s3, buckets, offS3>>

NextS3 ==
    \/ \E b \in BucketInputs, r \in RegionInputs : S3Manager_init(b, r)
    \/ \E path \in FilePaths, name \in {None, Key(<<"reports", "a.csv">>)} :
         upload_file(path, name)
    \/ \E k \in ObjectKeys : upload_fileobj(k)
    \/ \E k \in ObjectKeys : download_file(k)
    \/ \E prefix \in {<<>>, <<"reports">>} : list_objects(prefix)
    \/ \E k \in ObjectKeys : delete_file(k)

InitS3 ==
    /\ CodecIdle
    /\ TableIdle
    /\ StockIdle
    /\ S3Idle
    /\ SNSIdle
    /\ last = NoCall

SpecS3 == InitS3 /\ [][NextS3]_vars

-----------------------------------------------------------------------------
(* SNSManager.  The service holds the topics and, in the order they were    *)
(* created, the subscriptions; a subscription's ARN is its topic and its    *)
(* number.                                                                  *)

TopicNames == {"alerts"}
ArnOf(topic_name) == "arn:aws:sns:" \o topic_name
Emails == {"ann@example.com", "bob@example.com"}

\* A test for None alone, which lets an empty handle through.
IsNotNone(v) == v.t = "str"

\* bool(self.topic_arn)
Truthy(v) == v.t = "str" /\ v.str # ""

SubscriptionArn(topic, n) == [t |-> "arn", topic |-> topic, n |-> n]

EnsureOp == "ensure_customer_subscription"

\* The ensure_customer_subscription call that returned right before the
\* running one began (its email and the handle it returned), if any.
PrevEnsure == IF last.outcome = "running" THEN last.prev ELSE None

\* An SNSManager call's record: Ended, the handle the adapter held when the
\* call began and, for ensure_customer_subscription, the call before it.
SNSEnded(op, arg, outcome, value, remote, fault) ==
    [op |-> op, arg |-> arg, outcome |-> outcome, value |-> value,
     remote |-> remote, fault |-> fault, handle |-> topic_arn,
     prev |-> IF op = EnsureOp THEN PrevEnsure ELSE None]

\* The record of an ensure_customer_subscription call that has listed the
\* subscriptions and not yet returned.
EnsureRunning(arg) ==
    [op |-> EnsureOp, arg |-> arg, outcome |-> "running", value |-> None,
     remote |-> <<"list_subscriptions_by_topic">>, fault |-> "none",
     handle |-> topic_arn,
     prev |-> IF last.op = EnsureOp /\ last.outcome = "return"
              THEN [arg |-> last.arg, value |-> last.value] ELSE None]

\* What the handlers of create_topic, subscribe and publish_message raise
\* for a failed remote call: RuntimeError for a ClientError, and any other
\* exception passes through.
SNSRaised(fault) == IF fault = "ClientError" THEN "RuntimeError" ELSE fault

\* What the handlers of list_topics (lines 39-40) and list_subscriptions
\* (lines 78-79) make of a failed remote call.
sns_list_except(fault) == SNSRaised(fault)

\* A remote call on a topic the service does not hold fails with a ClientError.
OnTopic(fault) ==
    IF fault = "none" /\ topic_arn.str \notin topics THEN "ClientError" ELSE fault

\* create_topic
create_topic(c, topic_name) ==
    /\ pc[c] = "idle"
    /\ \E fault \in Faults :
         IF fault = "none"
         THEN /\ topics' = topics \cup {ArnOf(topic_name)}
              /\ topic_arn' = Str(ArnOf(topic_name))
              /\ last' = SNSEnded("create_topic", Str(topic_name), "return",
                                  Str(ArnOf(topic_name)), <<"create_topic">>, fault)
         ELSE /\ last' = SNSEnded("create_topic", Str(topic_name), SNSRaised(fault), None,
                                  <<"create_topic">>, fault)
              /\ UNCHANGED <<topics, topic_arn>>
    /\ UNCHANGED <<subs, published, pc, email, existing, offSNS>>

TopicOrder == <<"alerts">>

RECURSIVE TopicArns(_, _)
TopicArns(held, i) ==
    IF i > Len(TopicOrder) THEN <<>>
    ELSE (IF ArnOf(TopicOrder[i]) \in held THEN <<Str(ArnOf(TopicOrder[i]))>> ELSE <<>>)
         \o TopicArns(held, i + 1)

\* list_topics
list_topics(c) ==
    /\ pc[c] = "idle"
    /\ \E fault \in Faults :
         last' = IF fault = "none"
                 THEN SNSEnded("list_topics", None, "return", List(TopicArns(topics, 1)),
                               <<"list_topics">>, fault)
                 ELSE SNSEnded("list_topics", None, sns_list_except(fault), List(<<>>),
                               <<"list_topics">>, fault)
    /\ UNCHANGED <<snsVars, offSNS>>

\* attributes of subscribe: FilterPolicy is the policy as JSON text.
SubscribeAttributes(filter_policy) ==
    IF filter_policy # EmptyMap THEN [FilterPolicy |-> [json |-> filter_policy]]
    ELSE EmptyMap

\* The service's subscribe: a new subscription of the topic, with its ARN.
\* (History: `via` is the method that asked for it, `seen` the number of
\* subscriptions that method had listed before asking.)
NewSubscription(protocol, endpoint, attributes, via, seen) ==
    [SubscriptionArn |-> SubscriptionArn(topic_arn.str, Len(subs) + 1),
     TopicArn |-> topic_arn.str, Protocol |-> protocol, Endpoint |-> endpoint,
     Attributes |-> attributes, via |-> via, seen |-> seen]

\* subscribe, from its remote call on: the subscription created and how the
\* call ends.
Subscribing(op, arg, protocol, endpoint, filter_policy, before, seen) ==
    \E fault \in Faults :
      LET f == OnTopic(fault)
          sub == NewSubscription(protocol, endpoint,
                                 SubscribeAttributes(filter_policy), op, seen)
      IN  IF f = "none"
          THEN /\ Len(subs) < MaxSubs
               /\ subs' = Append(subs, sub)
               /\ last' = SNSEnded(op, arg, "return", sub.SubscriptionArn,
                                   Append(before, "subscribe"), f)
          ELSE /\ last' = SNSEnded(op, arg, SNSRaised(f), None,
                                   Append(before, "subscribe"), f)
               /\ UNCHANGED subs

\* subscribe
subscribe(c, protocol, endpoint, filter_policy) ==
    /\ pc[c] = "idle"
    /\ IF ~Truthy(topic_arn)
       THEN /\ last' = SNSEnded("subscribe", Str(endpoint), "ValueError", None, <<>>, "none")
            /\ UNCHANGED subs
       ELSE Subscribing("subscribe", Str(endpoint), protocol, endpoint, filter_policy,
                        <<>>, 0)
    /\ UNCHANGED <<topic_arn, topics, published, pc, email, existing, offSNS>>

\* The service's list_subscriptions_by_topic.
SubscriptionsByTopic(topic) == SelectSeq(subs, LAMBDA sub : sub.TopicArn = topic)

\* list_subscriptions
list_subscriptions(c) ==
    /\ pc[c] = "idle"
    /\ IF ~Truthy(topic_arn)
       THEN last' = SNSEnded("list_subscriptions", None, "ValueError", None, <<>>, "none")
       ELSE \E fault \in Faults :
              LET f == OnTopic(fault)
              IN  last' = IF f = "none"
                          THEN SNSEnded("list_subscriptions", None, "return",
                                        List(SubscriptionsByTopic(topic_arn.str)),
                                        <<"list_subscriptions_by_topic">>, f)
                          ELSE SNSEnded("list_subscriptions", None, sns_list_except(f),
                                        List(<<>>), <<"list_subscriptions_by_topic">>, f)
    /\ UNCHANGED <<snsVars, offSNS>>

\* publish_message's request parameters (lines 92-98).
publish_params(subject, message, message_attributes) ==
    IF message_attributes # EmptyMap
    THEN [TopicArn |-> topic_arn.str, Subject |-> subject, Message |-> message,
          MessageAttributes |-> message_attributes]
    ELSE [TopicArn |-> topic_arn.str, Subject |-> subject, Message |-> message]

\* publish_message, under the name of the method the application called.
Publishing(op, subject, message, message_attributes) ==
    IF ~Truthy(topic_arn)
    THEN /\ last' = SNSEnded(op, Str(subject), "ValueError", None, <<>>, "none")
         /\ UNCHANGED published
    ELSE \E fault \in Faults :
           LET f == OnTopic(fault)
               params == publish_params(subject, message, message_attributes)
           IN  IF f = "none"
               THEN /\ published' = params
                    /\ last' = SNSEnded(op, Str(subject), "return",
                                        Dict([a \in {"MessageId"} |-> Str("id")]),
                                        <<"publish">>, f)
               ELSE /\ last' = SNSEnded(op, Str(subject), SNSRaised(f), None,
                                        <<"publish">>, f)
                    /\ UNCHANGED published

\* publish_message
publish_message(c, subject, message, message_attributes) ==
    /\ pc[c] = "idle"
    /\ Publishing("publish_message", subject, message, message_attributes)
    /\ UNCHANGED <<topic_arn, topics, subs, pc, email, existing, offSNS>>

\* The message text of send_low_stock_alert, piece by piece.
LowStockMessage(product_name, quantity) ==
    <<"Product '", product_name, "' is below the reorder level (", quantity, " left).">>

\* send_low_stock_alert
send_low_stock_alert(c, product_name, quantity) ==
    /\ pc[c] = "idle"
    /\ Publishing("send_low_stock_alert", "Low Stock Alert",
                  LowStockMessage(product_name, quantity), EmptyMap)
    /\ UNCHANGED <<topic_arn, topics, subs, pc, email, existing, offSNS>>

\* ensure_customer_subscription, lines 118-122: the handle check and the
\* list_subscriptions call.
EnsureList(c, customer_email) ==
    /\ pc[c] = "idle"
    /\ IF ~Truthy(topic_arn)
       THEN /\ last' = SNSEnded(EnsureOp, Str(customer_email),
                                "ValueError", None, <<>>, "none")
            /\ UNCHANGED <<pc, email, existing>>
       ELSE \E fault \in Faults :
              LET f == OnTopic(fault)
              IN  IF f = "none"
                  THEN /\ existing' = [existing EXCEPT ![c] = SubscriptionsByTopic(topic_arn.str)]
                       /\ email' = [email EXCEPT ![c] = Str(customer_email)]
                       /\ pc' = [pc EXCEPT ![c] = "listed"]
                       /\ last' = EnsureRunning(Str(customer_email))
                  ELSE /\ last' = SNSEnded(EnsureOp,
                                           Str(customer_email), sns_list_except(f), None,
                                           <<"list_subscriptions_by_topic">>, f)
                       /\ UNCHANGED <<pc, email, existing>>
    /\ UNCHANGED <<topic_arn, topics, subs, published, offSNS>>

\* A loop that finds no subscription, whatever the topic holds.
NeverMatches(sub, customer_email) == FALSE

\* The test of line 124.
EndpointMatches(sub, customer_email) == sub.Endpoint = customer_email

\* The email's filter policy (lines 127-129).
CustomerFilterPolicy(customer_email) == [customer_email |-> <<customer_email>>]

\* ensure_customer_subscription, lines 123-135: the first listed
\* subscription of the endpoint is returned; without one, subscribe.
EnsureFinish(c) ==
    /\ pc[c] = "listed"
    /\ LET found == { i \in DOMAIN existing[c] : EndpointMatches(existing[c][i], email[c].str) }
           first == CHOOSE i \in found : \A j \in found : i <= j
       IN  IF found # {}
           THEN /\ last' = SNSEnded(EnsureOp, email[c], "return",
                                    existing[c][first].SubscriptionArn,
                                    <<"list_subscriptions_by_topic">>, "none")
                /\ UNCHANGED subs
           ELSE Subscribing(EnsureOp, email[c], "email",
                            email[c].str, CustomerFilterPolicy(email[c].str),
                            <<"list_subscriptions_by_topic">>, Len(existing[c]))
    /\ pc' = [pc EXCEPT ![c] = "idle"]
    /\ email' = [email EXCEPT ![c] = None]
    /\ existing' = [existing EXCEPT ![c] = <<>>]
    /\ UNCHANGED <<topic_arn, topics, published, offSNS>>

\* The calls one thread can make on the adapter: the service's operations
SNSCalls(c) ==
    \/ \E name \in TopicNames : create_topic(c, name)
    \/ list_topics(c)
    \/ \E e \in Emails : subscribe(c, "email", e, EmptyMap)
    \/ subscribe(c, "sms", "+15550100", [store |-> <<"north">>])
    \/ list_subscriptions(c)
    \/ \E attrs \in {EmptyMap, [customer_email |-> "ann@example.com"]} :
         publish_message(c, "Order update", "shipped", attrs)

\* and the two domain helpers.
SNSStep(c) ==
    \/ SNSCalls(c)
    \/ send_low_stock_alert(c, "widget", 3)
    \/ \E e \in Emails : EnsureList(c, e)
    \/ EnsureFinish(c)

\* SNSManager(topic_arn=handle): no handle, an empty one, or a topic's ARN
\* (of a topic the service holds, or not).
InitSNS ==
    /\ CodecIdle
    /\ TableIdle
    /\ StockIdle
    /\ S3Idle
    /\ topic_arn \in {None, Str(""), Str(ArnOf("alerts"))}
    /\ topics \in SUBSET {ArnOf("alerts")}
    /\ subs = <<>>
    /\ published = None
    /\ pc = [c \in Callers |-> "idle"]
    /\ email = [c \in Callers |-> None]
    /\ existing = [c \in Callers |-> <<>>]
    /\ last = NoCall

\* One application thread.
NextSNS == SNSStep("A")

SpecSNS == InitSNS /\ [][NextSNS]_vars

\* Two threads sharing the adapter.
NextSNSShared == \E c \in Callers : SNSStep(c)

SpecSNSShared == InitSNS /\ [][NextSNSShared]_vars

\* One application thread with an S3Manager and an SNSManager, calling the
\* operations of the two services.
NextAdapters == NextS3 \/ SNSCalls("A")

SpecAdapters == InitSNS /\ [][NextAdapters]_vars

-----------------------------------------------------------------------------
(* The claims about the S3 and SNS adapters.                                *)

Range(seq) == { seq[i] : i \in DOMAIN seq }

\* A bucket name the constructor must accept: a string with a character
\* that is not whitespace.
NameOK(v) == v.t = "str" /\ \E i \in DOMAIN v.chars : v.chars[i] \notin Whitespace

C4_RejectedBeforeAnyCall ==
    (last.op = "S3Manager" /\ ~NameOK(last.arg)) =>
        /\ last.outcome = "ValueError"
        /\ last.remote = <<>>
        /\ last.value = None

C4_NothingConstructed ==
    (last' # last /\ last'.op = "S3Manager" /\ ~NameOK(last'.arg))
        => UNCHANGED <<s3, buckets, objects>>

\* C4: constructing an S3Manager with a bucket name that is missing, not a
\* string, empty or only whitespace raises at once: no client is created,
\* no remote call (list_buckets, create_bucket) is made, and neither an
\* adapter object nor a bucket results.
C4_InvalidBucketFailsFast ==
    [](C4_RejectedBeforeAnyCall) /\ [][C4_NothingConstructed]_vars

\* A whitespace-only name was rejected while an adapter from an earlier,
\* valid construction stays as it was.
C4_WhitespaceNameRejected ==
    /\ last.op = "S3Manager"
    /\ last.arg = PyStr(<<" ", "\t">>)
    /\ last.outcome = "ValueError"
    /\ s3 # None

\* A handle is set when it is neither None nor the empty string.
HandleSet(h) == h # None /\ h # Str("")

TopicOps ==
    {"subscribe", "list_subscriptions", "publish_message", "send_low_stock_alert", EnsureOp}

C5_PreconditionChecked ==
    /\ last.op \in TopicOps =>
         IF HandleSet(last.handle)
         THEN last.outcome # "ValueError" /\ last.remote # <<>>
         ELSE last.outcome = "ValueError" /\ last.remote = <<>>
    /\ last.op \in {"list_topics", "create_topic"} =>
         last.outcome # "ValueError" /\ last.remote # <<>>

C5_HandleAndState ==
    /\ (last' # last /\ last'.outcome = "ValueError") => UNCHANGED snsVars
    /\ (~HandleSet(topic_arn) /\ HandleSet(topic_arn')) =>
          (last'.op = "create_topic" /\ last'.outcome = "return")

\* C5: subscribe, list_subscriptions, publish_message, send_low_stock_alert
\* and ensure_customer_subscription called with no topic handle set signal
\* a precondition error, make no remote call and change nothing; the handle
\* becomes set only by construction or a successful create_topic, after
\* which they proceed to the remote call; list_topics and create_topic need
\* no handle.
C5_TopicHandleRequired ==
    [](C5_PreconditionChecked) /\ [][C5_HandleAndState]_vars

\* ensure_customer_subscription was refused on an adapter built with an
\* empty handle.
C5_RefusedWithoutHandle ==
    /\ last.op = EnsureOp
    /\ last.outcome = "ValueError"
    /\ last.handle = Str("")
    /\ topics # {}

EnsureCreated(e, topic) ==
    { i \in DOMAIN subs :
        subs[i].via = EnsureOp /\ subs[i].Endpoint = e /\ subs[i].TopicArn = topic }

\* C3: with a handle set and nothing in between, two successive
\* ensure_customer_subscription calls with the same email return the same
\* subscription handle, the second without a subscribe request; the topic
\* never holds more than one subscription such calls created for an endpoint.
C3_EnsureIdempotent ==
    /\ (last.op = EnsureOp /\ last.outcome = "return" /\ last.prev # None
            /\ last.prev.arg = last.arg) =>
          (last.value = last.prev.value /\ "subscribe" \notin Range(last.remote))
    /\ \A e \in Emails, name \in TopicNames :
          Cardinality(EnsureCreated(e, ArnOf(name))) <= 1

\* A second call for the email returned the subscription the first created.
C3_SecondCallReturnsFirst ==
    /\ last.op = EnsureOp /\ last.outcome = "return"
    /\ last.prev # None /\ last.prev.arg = last.arg
    /\ \E i \in DOMAIN subs :
         subs[i].via = EnsureOp /\ subs[i].SubscriptionArn = last.value

\* The place of a subscription among those of its topic.
RankInTopic(i) ==
    Cardinality({ k \in 1..i : subs[k].TopicArn = subs[i].TopicArn })

SameEnsured(i, j) ==
    /\ i < j
    /\ subs[i].via = EnsureOp /\ subs[j].via = EnsureOp
    /\ subs[i].Endpoint = subs[j].Endpoint
    /\ subs[i].TopicArn = subs[j].TopicArn

\* C10: two concurrent ensure_customer_subscription calls for one email can
\* both list before either subscribes, both find no matching endpoint and
\* both subscribe; a second subscription for an email arises only so: the
\* call that created it had listed before the first one existed.
C10_DuplicateOnlyByRace ==
    \A i, j \in DOMAIN subs :
        SameEnsured(i, j) => subs[j].seen < RankInTopic(i)

\* Both callers listed an empty topic and both subscribed the same email.
C10_BothSubscribed ==
    \E i, j \in DOMAIN subs :
        SameEnsured(i, j) /\ subs[i].seen = 0 /\ subs[j].seen = 0

Raises(outcome) == outcome \in {"ClientError", "RuntimeError", "OtherError"}

S3Mutating == {"upload_file", "upload_fileobj", "download_file", "delete_file"}
SNSMutating == {"create_topic", "subscribe", "publish_message"}

MutatingRaise ==
    (last.fault # "none" /\ last.op \in S3Mutating \cup SNSMutating)
        => Raises(last.outcome)

\* C7 as claimed: a failed service call makes the mutating operations of
\* both adapters raise, and the listing operations of both (list_objects,
\* list_topics, list_subscriptions) return an empty sequence.
C7_ListingSwallows ==
    /\ MutatingRaise
    /\ (last.fault # "none"
            /\ last.op \in {"list_objects", "list_topics", "list_subscriptions"})
          => (last.outcome = "return" /\ last.value = List(<<>>))

\* C7 as the code has it: the mutating operations raise, list_objects
\* returns an empty sequence, and list_topics and list_subscriptions raise
\* like the mutating operations.
C7_OnlyS3ListingSwallows ==
    /\ MutatingRaise
    /\ (last.fault # "none" /\ last.op = "list_objects")
          => (last.outcome = "return" /\ last.value = List(<<>>))
    /\ (last.fault # "none" /\ last.op \in {"list_topics", "list_subscriptions"})
          => Raises(last.outcome)

\* list_objects has swallowed a failure of the service while the bucket
\* holds objects.
C7_ListObjectsSwallowed ==
    /\ last.op = "list_objects"
    /\ last.fault # "none"
    /\ last.value = List(<<>>)
    /\ objects # {}

=============================================================================
